---- MODULE Spec2Model ----
(***************************************************************************)
(* Quote Generator (script.js): the quote-acquisition pipeline.            *)
(*                                                                         *)
(* getQuote() fetches a quote through a chain of CORS relays, falls back   *)
(* to the localStorage cache and then to quotes.json, optionally           *)
(* translates the text and displays it.  JavaScript is single-threaded:    *)
(* a handler runs without interruption up to its next await on a network   *)
(* request, so each action below is one such run-to-suspension step.       *)
(***************************************************************************)
EXTENDS Integers, Sequences, FiniteSets, TLC

(***************************************************************************)
(* Bounds of the model.                                                    *)
(***************************************************************************)
\* Longest relay list CONFIG.corsProxies that is explored (the shipped list has 2).
MaxRelays == 2
\* The cap CONFIG.maxCacheSize, scaled down from 100 so that eviction happens.
MaxCacheSize == 2
\* Number of getQuote activations that may exist side by side.
MaxActivations == 2
\* Number of dropped triggers counted during one acquisition.
MaxDropped == 1
\* Number of saveQuoteToCache calls in a run of the recording specification.
MaxRecords == 4
\* Number of toggleFavorite and removeFavorite calls in a run of the favorites specification.
MaxToggles == 3

(***************************************************************************)
(* JavaScript values.                                                      *)
(***************************************************************************)
\* The value undefined (a missing property, a missing array element).
Undefined == "<undefined>"
\* The value null.
Null == "<null>"
\* A quote object {text, author}.
Quote(text, author) == [text |-> text, author |-> author]
\* A null / undefined result where a quote object is expected.
NoQuote == Quote(Null, Null)
\* What reading .text and .author of a one-character string gives.
CharValue == Quote(Undefined, Undefined)
\* JavaScript truthiness of a quote-or-null result.
Truthy(q) == q # NoQuote

\* A parsed JSON value, as far as the code looks at it: its shape and, for an
\* array, its elements.
JsValue(kind, items) == [kind |-> kind, items |-> items]
JsArray(items) == JsValue("array", items)
\* An entry of state.favorites: {text, author, addedAt}.
Favorite(text, author, addedAt) == [text |-> text, author |-> author, addedAt |-> addedAt]
\* The values that an if-test takes as false, among those a quote text can be.
Falsy == {Null, Undefined, ""}

(***************************************************************************)
(* Configuration (CONFIG).                                                 *)
(***************************************************************************)
maxCacheSize == MaxCacheSize

\* A rate-limit message and the author values the remote quote source may send.
RateLimitText == "Too many requests. Obtain an auth key for unlimited access."
Authors == {"Oscar Wilde"}
PlaceholderAuthors == {"zenquotes.io", "type.fit"}

(***************************************************************************)
(* The program's state.                                                    *)
(***************************************************************************)
VARIABLES
    state,          \* the state object: currentQuote, currentAuthor, currentLanguage, isLoading
    localStorage,   \* the persisted value under CONFIG.cacheKey
    screen,         \* what the quote element shows: blank, skeleton, quote or error
    corsProxies,    \* CONFIG.corsProxies, the ordered relay list
    calls,          \* the getQuote activations: position and local variables of each
    timers,         \* pending setTimeout timers of relay attempts: <<activation, relay index>>
    booted,         \* init() has run and the event listeners are registered
    log,            \* history: the calls made by the current acquisition, in order
    dropped,        \* history: getQuote calls dropped by the guard during the current acquisition
    received,       \* history: the relay response body read in the step that led to this state
    favorites,      \* state.favorites: the parsed value, for an array its entries newest first
    favoriteQuotes, \* the persisted value under the key 'favoriteQuotes'
    toggles         \* history: per toggleFavorite or removeFavorite call, the list before
                    \* it, the list after it, the text toggled, whether setItem succeeded
                    \* and the persisted value after it

vars == <<state, localStorage, screen, corsProxies, calls, timers, booted, log, dropped, received,
          favorites, favoriteQuotes, toggles>>

\* The favorites are read, not written, by the acquisition handlers.
favs == <<favorites, favoriteQuotes, toggles>>

Acts == 1..MaxActivations

\* No relay response body was read in the step.
NoBody == [kind |-> "none", doc |-> <<>>]

\* All mutable parts of the program, as one value that the handlers transform.
Machine ==
    [state |-> state, localStorage |-> localStorage, screen |-> screen,
     calls |-> calls, timers |-> timers, log |-> log, dropped |-> dropped,
     received |-> NoBody, favorites |-> favorites]

Becomes(m) ==
    /\ state' = m.state
    /\ localStorage' = m.localStorage
    /\ screen' = m.screen
    /\ calls' = m.calls
    /\ timers' = m.timers
    /\ log' = m.log
    /\ dropped' = m.dropped
    /\ received' = m.received

\* One entry of the history log.
Event(ev, n, q) == [ev |-> ev, n |-> n, q |-> q]
Logged(m, ev, n, q) == [m EXCEPT !.log = Append(@, Event(ev, n, q))]

(***************************************************************************)
(* Cache functions.                                                        *)
(***************************************************************************)
\* JSON.stringify of the cache array, as stored by localStorage.setItem.
Stringify(items) == JsValue("array", items)

\* getCachedQuotes: an absent key or an empty string gives [], unparsable text is
\* caught and gives [], anything else is whatever JSON.parse returns.
getCachedQuotes(stored) ==
    IF stored.kind \in {"absent", "empty", "garbage"} THEN JsArray(<<>>) ELSE stored

\* Mutation of IsDuplicate: the author takes part in the comparison.
IsDuplicate_textAndAuthor(items, quote) == \E i \in 1..Len(items) : items[i] = quote

\* Mutation of IsDuplicate: only the newest entry is compared.
IsDuplicate_newestOnly(items, quote) ==
    Len(items) > 0 /\ items[Len(items)].text = quote.text

\* cachedQuotes.some(cached => cached.text === quote.text)
IsDuplicate(items, quote) == \E i \in 1..Len(items) : items[i].text = quote.text

\* Mutation of ShiftToLimit: the cap is not enforced.
ShiftToLimit_none(items) == items

\* Mutation of ShiftToLimit: pop() in place of shift(), the newest entries go.
ShiftToLimit_pop(items) ==
    IF Len(items) > maxCacheSize THEN SubSeq(items, 1, maxCacheSize) ELSE items

\* while (cachedQuotes.length > CONFIG.maxCacheSize) cachedQuotes.shift()
RECURSIVE ShiftToLimit(_)
ShiftToLimit(items) ==
    IF Len(items) > maxCacheSize THEN ShiftToLimit(Tail(items)) ELSE items

\* Mutation of saveQuoteToCache: a quote whose text is cached overwrites that entry.
saveQuoteToCache_overwrite(stored, quote, setItemOk) ==
    LET cachedQuotes == getCachedQuotes(stored) IN
    IF cachedQuotes.kind # "array" THEN stored
    ELSE IF IsDuplicate(cachedQuotes.items, quote)
         THEN Stringify([i \in 1..Len(cachedQuotes.items) |->
                            IF cachedQuotes.items[i].text = quote.text
                            THEN quote ELSE cachedQuotes.items[i]])
    ELSE IF setItemOk THEN Stringify(ShiftToLimit(Append(cachedQuotes.items, quote)))
    ELSE stored

\* Mutation of saveQuoteToCache: a failed setItem loses what was persisted.
saveQuoteToCache_lossy(stored, quote, setItemOk) ==
    LET cachedQuotes == getCachedQuotes(stored) IN
    IF cachedQuotes.kind # "array" THEN stored
    ELSE IF IsDuplicate(cachedQuotes.items, quote) THEN stored
    ELSE IF setItemOk THEN Stringify(ShiftToLimit(Append(cachedQuotes.items, quote)))
    ELSE JsValue("absent", <<>>)

\* saveQuoteToCache: the value persisted afterwards.  setItemOk = FALSE is
\* localStorage.setItem throwing (quota, storage unavailable).  A parsed value
\* that is not an array has no .some method: the TypeError is caught.
saveQuoteToCache(stored, quote, setItemOk) ==
    LET cachedQuotes == getCachedQuotes(stored) IN
    IF cachedQuotes.kind # "array" THEN stored
    ELSE IF IsDuplicate(cachedQuotes.items, quote) THEN stored
    ELSE IF setItemOk THEN Stringify(ShiftToLimit(Append(cachedQuotes.items, quote)))
    ELSE stored

\* saveQuoteToCache reaches localStorage.setItem and setItem throws; the catch
\* block logs a warning and saveQuoteToCache returns normally.
setItemThrows(stored, quote, setItemOk) ==
    LET cachedQuotes == getCachedQuotes(stored) IN
    /\ cachedQuotes.kind = "array"
    /\ ~IsDuplicate(cachedQuotes.items, quote)
    /\ ~setItemOk

\* An outcome of a call: it threw, or it returned value.
Threw == [threw |-> TRUE, value |-> NoQuote]
Returned(v) == [threw |-> FALSE, value |-> v]

\* Sampling v[Math.floor(Math.random() * v.length)] after the v.length === 0 test:
\* the set of possible outcomes for a parsed value v of any shape.
\*   array: null when empty, else any element;
\*   null: reading .length throws a TypeError;
\*   number, object: .length is undefined, the index is NaN, the element undefined;
\*   string: a one-character string (strings in the model are non-empty).
SampleOutcomes(v) ==
    CASE v.kind = "array" ->
            IF Len(v.items) = 0 THEN {Returned(NoQuote)}
            ELSE {Returned(v.items[i]) : i \in 1..Len(v.items)}
      [] v.kind = "null" -> {Threw}
      [] v.kind \in {"number", "object"} -> {Returned(NoQuote)}
      [] v.kind = "string" -> {Returned(CharValue)}

\* Mutation of getRandomCachedQuote: Math.round in place of Math.floor, so the
\* index can be the length and the sample undefined.
getRandomCachedQuote_round(stored) ==
    SampleOutcomes(getCachedQuotes(stored)) \cup {Returned(NoQuote)}

\* getRandomCachedQuote
getRandomCachedQuote(stored) == SampleOutcomes(getCachedQuotes(stored))

(***************************************************************************)
(* Static fallback dataset (quotes.json).                                  *)
(***************************************************************************)
\* A record {q, a} of the dataset or of the remote source.
Rec(q, a) == [q |-> q, a |-> a]

\* A parsed response body: kind is notjson, null, string or object for bodies
\* without elements or fields; doc is the quotes field of a dataset document or
\* the array of records the remote source sends.
Body(kind, doc) == [kind |-> kind, doc |-> doc]

\* fetchFallbackQuotes after a response with ok status: data.quotes || [].
\* A body that is not JSON makes response.json() reject and JSON null makes
\* data.quotes throw; both are caught and give [].  A falsy quotes field
\* (missing, null) gives [].
fetchFallbackQuotes(body) ==
    IF body.kind # "object" THEN JsArray(<<>>)
    ELSE IF body.doc.kind \in {"absent", "null"} THEN JsArray(<<>>)
    ELSE body.doc

\* Mutation of getRandomFallbackQuote: the fields q and a are swapped.
getRandomFallbackQuote_swapped(fallbackQuotes) ==
    CASE fallbackQuotes.kind = "array" ->
            IF Len(fallbackQuotes.items) = 0 THEN {Returned(NoQuote)}
            ELSE {Returned(Quote(fallbackQuotes.items[i].a, fallbackQuotes.items[i].q)) :
                    i \in 1..Len(fallbackQuotes.items)}
      [] fallbackQuotes.kind \in {"number", "object"} -> {Threw}
      [] fallbackQuotes.kind = "string" -> {Returned(CharValue)}

\* getRandomFallbackQuote: the possible outcomes for the loaded collection.
\* The sampled element is read as quote.q and quote.a outside any try block:
\* an undefined element (a number or an object in place of the array) throws.
getRandomFallbackQuote(fallbackQuotes) ==
    CASE fallbackQuotes.kind = "array" ->
            IF Len(fallbackQuotes.items) = 0 THEN {Returned(NoQuote)}
            ELSE {Returned(Quote(fallbackQuotes.items[i].q, fallbackQuotes.items[i].a)) :
                    i \in 1..Len(fallbackQuotes.items)}
      [] fallbackQuotes.kind \in {"number", "object"} -> {Threw}
      [] fallbackQuotes.kind = "string" -> {Returned(CharValue)}

(***************************************************************************)
(* Relay response parsing (tryFetchWithProxy after response.ok).           *)
(***************************************************************************)
\* Mutation of toLowerCase: the text is compared as it arrived.
toLowerCase_asIs(s) == s

\* String.prototype.toLowerCase on the texts of the model.
toLowerCase(s) ==
    CASE s = "Be yourself." -> "be yourself."
      [] s = "Stay hungry." -> "stay hungry."
      [] s = "Know thyself." -> "know thyself."
      [] s = "Carpe diem." -> "carpe diem."
      [] s = "Too many requests. Obtain an auth key for unlimited access."
            -> "too many requests. obtain an auth key for unlimited access."
      [] s = "TOO MANY REQUESTS" -> "too many requests"
      [] OTHER -> s

\* s.includes('too many requests') for a lower-cased text of the model.
IncludesTooManyRequests(s) ==
    s \in {"too many requests. obtain an auth key for unlimited access.",
           "too many requests"}

\* Mutation of CleanAuthor: the denylist is compared without regard to case.
CleanAuthor_anyCase(author) ==
    IF author \in {Undefined, Null, ""} \/ author \in {"zenquotes.io", "ZenQuotes.io", "type.fit"}
    THEN "Unknown"
    ELSE author

\* Clean author name: !author || author === 'zenquotes.io' || author === 'type.fit'
CleanAuthor(author) ==
    IF author \in {Undefined, Null, ""} \/ author = "zenquotes.io" \/ author = "type.fit"
    THEN "Unknown"
    ELSE author

\* The outcome of the part of tryFetchWithProxy that follows the status test:
\* response.json(), data[0], the rate-limit test and the author clean-up.
\*   notjson: response.json() rejects;  null: data[0] throws;
\*   object, or an empty array: data[0] is undefined and quote.q throws;
\*   string: data[0] is a character, whose q and a are undefined.
ParseQuote(body) ==
    CASE body.kind \in {"notjson", "null", "object"} -> Threw
      [] body.kind = "string" -> Returned(Quote(Undefined, CleanAuthor(Undefined)))
      [] body.kind = "array" ->
            IF Len(body.doc) = 0 THEN Threw
            ELSE LET quote == body.doc[1] IN
                 IF quote.q \notin {Undefined, Null, ""}
                       /\ IncludesTooManyRequests(toLowerCase(quote.q))
                 THEN Threw
                 ELSE Returned(Quote(quote.q, CleanAuthor(quote.a)))

(***************************************************************************)
(* Translation (translateText).                                            *)
(***************************************************************************)
\* What the translation service answers for a text when it translates it.
Translated(text) == "tr:" \o text

\* A translation payload: responseStatus and the shape of responseData
\* (absent, null, an object with translatedText, an object without it).
Payload(status, data) == [responseStatus |-> status, responseData |-> data]

\* Mutation of translateText: responseStatus is not examined.
translateText_anyStatus(text, body) ==
    IF body.kind # "object" THEN text
    ELSE IF body.doc.responseData \in {"withText", "noText"}
         THEN IF body.doc.responseData = "withText" THEN Translated(text) ELSE Undefined
         ELSE text

\* translateText after a response with ok status.  A body that is not JSON
\* rejects and JSON null throws on data.responseStatus; both are caught.
translateText(text, body) ==
    IF body.kind # "object" THEN text
    ELSE IF body.doc.responseStatus = 200 /\ body.doc.responseData \in {"withText", "noText"}
         THEN IF body.doc.responseData = "withText" THEN Translated(text) ELSE Undefined
         ELSE text

(***************************************************************************)
(* Display functions.                                                      *)
(***************************************************************************)
\* Mutation of setLoadingState: state.isLoading is not written.
setLoadingState_uiOnly(m, loading) ==
    [m EXCEPT !.screen = IF loading THEN "skeleton" ELSE @]

setLoadingState(m, loading) ==
    [m EXCEPT !.state.isLoading = loading,
              !.screen = IF loading THEN "skeleton" ELSE @]

\* displayQuote up to its call of updateFavoriteButton.
displayQuote(m, text, author) ==
    Logged([m EXCEPT !.state.currentQuote = text,
                     !.state.currentAuthor = author,
                     !.screen = "quote"],
           "displayQuote", 0, Quote(text, author))

\* updateFavoriteButton returns at once without a current quote; else it calls
\* state.favorites.some, which only an array has.
updateFavoriteButtonThrows(m) ==
    m.state.currentQuote \notin Falsy /\ m.favorites.kind # "array"

\* Mutation of displayError: the current quote is forgotten.
displayError_clears(m) ==
    Logged([m EXCEPT !.screen = "error", !.state.currentQuote = Null,
                     !.state.currentAuthor = Null],
           "displayError", 0, NoQuote)

displayError(m) == Logged([m EXCEPT !.screen = "error"], "displayError", 0, NoQuote)

(***************************************************************************)
(* getQuote, from its resumption points to the next suspension.            *)
(***************************************************************************)
\* An activation that is not running: it never started, returned or threw.
Free(c) == c.pc \in {"none", "returned", "rejected"}

NewCall ==
    [pc |-> "none", proxy |-> 0, quote |-> NoQuote, isFromFallback |-> FALSE,
     fallbackQuotes |-> JsArray(<<>>)]

\* The tail of getQuote: setLoadingState(false); changeTheme(); return.
\* The count of dropped triggers belongs to the acquisition and ends with it.
Finish(m, a) ==
    [setLoadingState(m, FALSE) EXCEPT !.calls[a].pc = "returned", !.dropped = 0]

\* An exception that leaves getQuote: the promise it returned rejects and the
\* rest of the function body is skipped.
Reject(m, a) == Logged([m EXCEPT !.calls[a].pc = "rejected"], "throw", 0, NoQuote)

\* getQuote after displayQuote wrote the quote (m): the exception of
\* updateFavoriteButton leaves displayQuote and getQuote, else the tail runs.
AfterDisplayQuote(m, a) ==
    IF updateFavoriteButtonThrows(m) THEN Reject(m, a) ELSE Finish(m, a)

\* Mutation of ProcessQuote: a quote from a fallback source is not displayed.
ProcessQuote_freshOnly(m, a) ==
    LET quote == m.calls[a].quote IN
    IF Truthy(quote) /\ ~m.calls[a].isFromFallback
    THEN IF m.state.currentLanguage = "tr"
         THEN Logged([m EXCEPT !.calls[a].pc = "translate_fetch"],
                     "translateText", 0, Quote(quote.text, Null))
         ELSE AfterDisplayQuote(displayQuote(m, quote.text, quote.author), a)
    ELSE Finish(displayError(m), a)

\* Mutation of ProcessQuote: after displayError quotes.json is requested again.
ProcessQuote_retryDataset(m, a) ==
    LET quote == m.calls[a].quote IN
    IF Truthy(quote)
    THEN IF m.state.currentLanguage = "tr"
         THEN Logged([m EXCEPT !.calls[a].pc = "translate_fetch"],
                     "translateText", 0, Quote(quote.text, Null))
         ELSE AfterDisplayQuote(displayQuote(m, quote.text, quote.author), a)
    ELSE [displayError(m) EXCEPT !.calls[a].pc = "dataset_fetch"]

\* Mutation of ProcessQuote: translateText is called whatever the language.
ProcessQuote_translateAlways(m, a) ==
    LET quote == m.calls[a].quote IN
    IF Truthy(quote)
    THEN Logged([m EXCEPT !.calls[a].pc = "translate_fetch"],
                "translateText", 0, Quote(quote.text, Null))
    ELSE Finish(displayError(m), a)

\* Mutation of ProcessQuote: a quote from a fallback source is displayed as it is.
ProcessQuote_fallbackUntranslated(m, a) ==
    LET quote == m.calls[a].quote IN
    IF Truthy(quote)
    THEN IF m.state.currentLanguage = "tr" /\ ~m.calls[a].isFromFallback
         THEN Logged([m EXCEPT !.calls[a].pc = "translate_fetch"],
                     "translateText", 0, Quote(quote.text, Null))
         ELSE AfterDisplayQuote(displayQuote(m, quote.text, quote.author), a)
    ELSE Finish(displayError(m), a)

\* getQuote from "Process and display quote" on, for the quote held in the
\* activation: translate first when Turkish is selected, else display; with no
\* quote, displayError.
ProcessQuote(m, a) ==
    LET quote == m.calls[a].quote IN
    IF Truthy(quote)
    THEN IF m.state.currentLanguage = "tr"
         THEN Logged([m EXCEPT !.calls[a].pc = "translate_fetch"],
                     "translateText", 0, Quote(quote.text, Null))
         ELSE AfterDisplayQuote(displayQuote(m, quote.text, quote.author), a)
    ELSE Finish(displayError(m), a)

\* Mutation of AfterTranslate: the translated quote is saved to the cache.
AfterTranslate_saves(m, a, displayText) ==
    AfterDisplayQuote(displayQuote([Logged(m, "translateText returns", 0, Quote(displayText, Null))
                            EXCEPT !.localStorage =
                                saveQuoteToCache(@, Quote(displayText, m.calls[a].quote.author), TRUE)],
                        displayText, m.calls[a].quote.author), a)

\* getQuote after translateText resolved with displayText.
AfterTranslate(m, a, displayText) ==
    AfterDisplayQuote(displayQuote(Logged(m, "translateText returns", 0, Quote(displayText, Null)),
                        displayText, m.calls[a].quote.author), a)

\* getQuoteFromFallback after getRandomFallbackQuote settled with outcome o, and
\* getQuote's catch block after it.
AfterFallbackQuote(m, a, o) ==
    IF o.threw THEN Reject(Logged(m, "getRandomFallbackQuote", 0, NoQuote), a)
    ELSE ProcessQuote([Logged(m, "getRandomFallbackQuote", 0, o.value)
                          EXCEPT !.calls[a].quote = o.value,
                                 !.calls[a].isFromFallback = TRUE], a)

\* getRandomFallbackQuote after fetchFallbackQuotes returned fallbackQuotes.
AfterDataset(m, a, fallbackQuotes) ==
    { AfterFallbackQuote([m EXCEPT !.calls[a].fallbackQuotes = fallbackQuotes], a, o) :
        o \in getRandomFallbackQuote(fallbackQuotes) }

\* Mutation of getQuoteFromFallback: quotes.json is tried without sampling the cache.
getQuoteFromFallback_datasetFirst(m, a) ==
    { Logged([m EXCEPT !.calls[a].pc = "dataset_fetch"], "fetchFallbackQuotes", 0, NoQuote) }

\* getQuote's catch block: getQuoteFromFallback up to its first suspension.
\* The cache is sampled first; only a falsy sample goes on to quotes.json.
getQuoteFromFallback(m, a) ==
    { IF o.threw THEN Reject(Logged(m, "getRandomCachedQuote", 0, NoQuote), a)
      ELSE IF Truthy(o.value)
      THEN ProcessQuote([Logged(m, "getRandomCachedQuote", 0, o.value)
                            EXCEPT !.calls[a].quote = o.value,
                                   !.calls[a].isFromFallback = TRUE], a)
      ELSE Logged(Logged([m EXCEPT !.calls[a].pc = "dataset_fetch"],
                         "getRandomCachedQuote", 0, NoQuote),
                  "fetchFallbackQuotes", 0, NoQuote)
      : o \in getRandomCachedQuote(m.localStorage) }

\* fetchQuoteFromApi: the loop over CONFIG.corsProxies from index i on.  With a
\* proxy left, tryFetchWithProxy starts its timer and its request and suspends;
\* with none left the function throws and getQuote's catch block runs.
fetchQuoteFromApi(m, a, i) ==
    IF i <= Len(corsProxies)
    THEN { Logged([m EXCEPT !.calls[a].pc = "relay_fetch",
                            !.calls[a].proxy = i,
                            !.timers = @ \cup {<<a, i>>}],
                  "tryFetchWithProxy", corsProxies[i], NoQuote) }
    ELSE getQuoteFromFallback(Logged(m, "fetchQuoteFromApi throws", 0, NoQuote), a)

\* Mutations of ProxyFailed: the loop tries the failed proxy again; the loop
\* skips the proxy after the failed one.
ProxyFailed_retry(m, a) ==
    LET i == m.calls[a].proxy IN
    fetchQuoteFromApi(
        Logged([m EXCEPT !.timers = @ \ {<<a, i>>}], "proxy failed", corsProxies[i], NoQuote),
        a, i)

ProxyFailed_skip(m, a) ==
    LET i == m.calls[a].proxy IN
    fetchQuoteFromApi(
        Logged([m EXCEPT !.timers = @ \ {<<a, i>>}], "proxy failed", corsProxies[i], NoQuote),
        a, i + 2)

\* Mutation of ProxyFailed: the catch block does not clear the timer.
ProxyFailed_timerLeft(m, a) ==
    LET i == m.calls[a].proxy IN
    fetchQuoteFromApi(Logged(m, "proxy failed", corsProxies[i], NoQuote), a, i + 1)

\* tryFetchWithProxy's catch block (clearTimeout, rethrow) and the catch block of
\* the loop in fetchQuoteFromApi, which goes on to the next proxy.
ProxyFailed(m, a) ==
    LET i == m.calls[a].proxy IN
    fetchQuoteFromApi(
        Logged([m EXCEPT !.timers = @ \ {<<a, i>>}], "proxy failed", corsProxies[i], NoQuote),
        a, i + 1)

\* Mutation of ProxySucceeded: the fetched quote is not saved.
ProxySucceeded_noSave(m, a, quote, setItemOk) ==
    LET i == m.calls[a].proxy
        m1 == Logged(m, "proxy succeeded", corsProxies[i], quote)
    IN ProcessQuote([m1 EXCEPT !.calls[a].quote = quote], a)

\* tryFetchWithProxy returned quote: fetchQuoteFromApi returns it, getQuote saves
\* it to the cache and goes on to process it.
ProxySucceeded(m, a, quote, setItemOk) ==
    LET i == m.calls[a].proxy
        m1 == Logged(m, "proxy succeeded", corsProxies[i], quote)
        m2 == Logged([m1 EXCEPT !.calls[a].quote = quote,
                                !.localStorage = saveQuoteToCache(@, quote, setItemOk)],
                     "saveQuoteToCache", 0, quote)
        m3 == IF setItemThrows(m.localStorage, quote, setItemOk)
              THEN Logged(m2, "setItem throws", 0, quote)
              ELSE m2
    IN ProcessQuote(m3, a)

\* The least activation slot that is not running.
FreeSlot(m) == CHOOSE a \in Acts : Free(m.calls[a]) /\ \A b \in Acts : Free(m.calls[b]) => a <= b

\* Mutation of getQuote: the isLoading guard is missing.
getQuote_noGuard(m) ==
    IF \A a \in Acts : ~Free(m.calls[a]) THEN {}
    ELSE LET a == FreeSlot(m)
             m1 == [setLoadingState(m, TRUE) EXCEPT !.calls[a] = [NewCall EXCEPT !.pc = "started"],
                                                    !.log = <<Event("getQuote", a, NoQuote)>>,
                                                    !.dropped = 0]
         IN fetchQuoteFromApi(m1, a, 1)

\* getQuote(), up to its first suspension.  While state.isLoading it returns at
\* once; else it sets the loading state and calls fetchQuoteFromApi.
getQuote(m) ==
    IF m.state.isLoading THEN { [m EXCEPT !.dropped = @ + 1] }
    ELSE IF \A a \in Acts : ~Free(m.calls[a]) THEN {}
    ELSE LET a == FreeSlot(m)
             m1 == [setLoadingState(m, TRUE) EXCEPT !.calls[a] = [NewCall EXCEPT !.pc = "started"],
                                                    !.log = <<Event("getQuote", a, NoQuote)>>,
                                                    !.dropped = 0]
         IN fetchQuoteFromApi(m1, a, 1)

\* changeLanguage(lang)
changeLanguage(m, lang) ==
    IF m.state.currentLanguage = lang THEN {m}
    ELSE getQuote([m EXCEPT !.state.currentLanguage = lang])

(***************************************************************************)
(* Inputs: what the network may answer.                                    *)
(***************************************************************************)
\* How a fetch() settles: it rejects, or resolves with a status.
FetchOutcomes == {"network error", "http error", "ok"}

\* The first records the remote source may send: one text with every kind of
\* author, other texts, a record without q, and rate-limit messages.
RelayRecords ==
    {Rec("Be yourself.", a) : a \in Authors \cup PlaceholderAuthors \cup {"", Undefined}}
        \cup {Rec("Stay hungry.", "ZenQuotes.io"), Rec("Know thyself.", "zenquotes.io"),
              Rec(Undefined, "Oscar Wilde"),
              Rec(RateLimitText, "zenquotes.io"), Rec("TOO MANY REQUESTS", "Oscar Wilde")}

RelayBodies ==
    {Body(k, <<>>) : k \in {"notjson", "null", "object", "string", "array"}}
        \cup {Body("array", <<r>>) : r \in RelayRecords}

DatasetRecords == {Rec("Carpe diem.", "Horace"), Rec("Be yourself.", Undefined)}

DatasetBodies ==
    {Body(k, <<>>) : k \in {"notjson", "null"}}
        \cup {Body("object", JsValue(k, <<>>)) :
                k \in {"absent", "null", "number", "string", "object", "array"}}
        \cup {Body("object", JsArray(<<r>>)) : r \in DatasetRecords}
        \cup {Body("object", JsArray(<<Rec("Carpe diem.", "Horace"), Rec("Be yourself.", Undefined)>>))}

TranslateBodies ==
    {Body(k, <<>>) : k \in {"notjson", "null"}}
        \cup {Body("object", Payload(s, d)) :
                s \in {200, 403}, d \in {"absent", "null", "withText", "noText"}}

(***************************************************************************)
(* Initial state: the page has loaded, init() has not run yet.             *)
(***************************************************************************)
\* A first run (no key) or a cache emptied earlier.
CleanStores == {JsValue("absent", <<>>), Stringify(<<>>)}

\* What new Date().toISOString() can give when an entry is added: the clock
\* of the machine, which may stand still between two calls or be set back.
Stamps == {0, 1}

\* The favorites key on a first run, and as toggleFavorite left it in an
\* earlier session.
CleanFavorites ==
    {JsValue("absent", <<>>), Stringify(<<Favorite("Be yourself.", "Oscar Wilde", 0)>>)}

\* Values under the cache key that this program did not write.
ForeignStores == {JsValue(k, <<>>) : k \in {"empty", "garbage", "null", "number", "string", "object"}}

RelayLists == {[i \in 1..n |-> i] : n \in 0..MaxRelays}

\* loadFavorites(): state.favorites after it, for the value under the key
\* 'favoriteQuotes'.  No key and the empty string are falsy; unparsable text
\* throws in JSON.parse and null in updateFavoritesCount (null.length), and the
\* catch block sets []; any other parsed value is kept, array or not.
loadFavorites(stored) ==
    IF stored.kind \in {"array", "number", "string", "object"} THEN stored
    ELSE JsArray(<<>>)

InitWith(stores, favoriteStores) ==
    /\ state = [currentQuote |-> Null, currentAuthor |-> Null,
                currentLanguage |-> "en", isLoading |-> FALSE]
    /\ localStorage \in stores
    /\ screen = "blank"
    /\ corsProxies \in RelayLists
    /\ calls = [a \in Acts |-> NewCall]
    /\ timers = {}
    /\ booted = FALSE
    /\ log = <<>>
    /\ dropped = 0
    /\ received = NoBody
    /\ favorites = JsArray(<<>>)
    /\ favoriteQuotes \in favoriteStores
    /\ toggles = <<>>

\* The favorites of an earlier session are found on the configurations of at
\* most one relay: the acquisition reads them only to tell an array from
\* another value.
Init ==
    /\ InitWith(CleanStores, CleanFavorites)
    /\ favoriteQuotes.kind = "array" => Len(corsProxies) <= 1

(***************************************************************************)
(* Actions.                                                                *)
(***************************************************************************)
\* Handlers change everything but the configuration and the boot flag.
Step(ms) ==
    /\ \E m \in ms : m.dropped <= MaxDropped /\ Becomes(m)
    /\ UNCHANGED <<corsProxies, booted, favs>>

\* init(): loads the favorites, registers the listeners and fetches the
\* initial quote.
AppInit ==
    /\ ~booted
    /\ booted' = TRUE
    /\ favorites' = loadFavorites(favoriteQuotes)
    /\ \E m \in getQuote([Machine EXCEPT !.favorites = loadFavorites(favoriteQuotes)]) : Becomes(m)
    /\ UNCHANGED <<corsProxies, favoriteQuotes, toggles>>

\* Click on the new-quote button.
ClickNewQuote == booted /\ Step(getQuote(Machine))

\* Space or Enter outside the button (handleKeyboardShortcuts).
KeyNewQuote == booted /\ Step(getQuote(Machine))

\* Click on a language button.
ClickLanguage(lang) == booted /\ Step(changeLanguage(Machine, lang))

\* The relay request of activation a settles: fetch() resolves or rejects.
\* clearTimeout runs on every one of these paths.
RelayResponse(a) ==
    /\ calls[a].pc = "relay_fetch"
    /\ \E r \in FetchOutcomes :
          IF r = "ok"
          THEN Step({[Machine EXCEPT !.calls[a].pc = "relay_body",
                                     !.timers = @ \ {<<a, calls[a].proxy>>}]})
          ELSE Step(ProxyFailed(Machine, a))

\* A pending timer fires: controller.abort().  The request it belongs to, if
\* still outstanding, rejects with an AbortError.
RelayTimeout(a, i) ==
    /\ <<a, i>> \in timers
    /\ LET m == [Machine EXCEPT !.timers = @ \ {<<a, i>>}] IN
       IF calls[a].pc \in {"relay_fetch", "relay_body"} /\ calls[a].proxy = i
       THEN Step(ProxyFailed(m, a))
       ELSE Step({m})

\* The body of an ok relay response has been read: response.json() settles.
RelayBody(a) ==
    /\ calls[a].pc = "relay_body"
    /\ \E body \in RelayBodies, setItemOk \in BOOLEAN :
          LET o == ParseQuote(body)
              m == [Machine EXCEPT !.received = body]
          IN IF o.threw THEN Step(ProxyFailed(m, a))
             ELSE Step({ProxySucceeded(m, a, o.value, setItemOk)})

\* The request for quotes.json settles.  A rejection or a non-ok status is
\* caught in fetchFallbackQuotes, which returns [].
DatasetResponse(a) ==
    /\ calls[a].pc = "dataset_fetch"
    /\ \E r \in FetchOutcomes :
          IF r = "ok"
          THEN Step({[Machine EXCEPT !.calls[a].pc = "dataset_body"]})
          ELSE Step(AfterDataset(Machine, a, JsArray(<<>>)))

\* The body of quotes.json has been read.
DatasetBody(a) ==
    /\ calls[a].pc = "dataset_body"
    /\ \E body \in DatasetBodies :
          Step(AfterDataset(Machine, a, fetchFallbackQuotes(body)))

\* The translation request settles.  A rejection or a non-ok status is caught
\* in translateText, which returns the text it was given.
TranslateResponse(a) ==
    /\ calls[a].pc = "translate_fetch"
    /\ \E r \in FetchOutcomes :
          IF r = "ok"
          THEN Step({[Machine EXCEPT !.calls[a].pc = "translate_body"]})
          ELSE Step({AfterTranslate(Logged(Machine, "translate " \o r, 0, NoQuote),
                                    a, calls[a].quote.text)})

\* The body of the translation response has been read.
TranslateBody(a) ==
    /\ calls[a].pc = "translate_body"
    /\ \E body \in TranslateBodies :
          Step({AfterTranslate(Logged(Machine, "translate body " \o body.kind,
                                      IF body.kind = "object" THEN body.doc.responseStatus ELSE 0,
                                      NoQuote),
                               a, translateText(calls[a].quote.text, body))})

Next ==
    \/ AppInit
    \/ ClickNewQuote
    \/ KeyNewQuote
    \/ \E lang \in {"en", "tr"} : ClickLanguage(lang)
    \/ \E a \in Acts : RelayResponse(a)
    \/ \E a \in Acts, i \in 1..MaxRelays : RelayTimeout(a, i)
    \/ \E a \in Acts : RelayBody(a)
    \/ \E a \in Acts : DatasetResponse(a)
    \/ \E a \in Acts : DatasetBody(a)
    \/ \E a \in Acts : TranslateResponse(a)
    \/ \E a \in Acts : TranslateBody(a)

Spec == Init /\ [][Next]_vars

(***************************************************************************)
(* Reading the history of the current acquisition.                         *)
(***************************************************************************)
HasEvent(ev) == \E p \in 1..Len(log) : log[p].ev = ev

\* The activation the log belongs to.
Cur == log[1].n

IsRelayEvent(e) == e.ev \in {"tryFetchWithProxy", "proxy failed", "proxy succeeded"}
IsAttempt(e) == e.ev = "tryFetchWithProxy"
IsFailure(e) == e.ev = "proxy failed"

\* The relay events of the acquisition, and the relays attempted, in order.
RelayLog == SelectSeq(log, IsRelayEvent)
AttemptedRelays == [p \in 1..Len(SelectSeq(log, IsAttempt)) |-> SelectSeq(log, IsAttempt)[p].n]
FailedCount == Len(SelectSeq(log, IsFailure))

\* Requests of relay attempts that are outstanding.
RelayRequests == {a \in Acts : calls[a].pc \in {"relay_fetch", "relay_body"}}

(***************************************************************************)
(* C1.  Relay ordering.  In every acquisition the relay attempts are       *)
(* started in list order without skipping or repeating; an attempt starts  *)
(* only after the previous one has failed, so that no two are in flight;   *)
(* and when the first M attempts failed and attempt M+1 succeeded, exactly *)
(* M+1 attempts were made, nothing is attempted after the success, and the *)
(* quote getQuote received is the one parsed from relay M+1's response.    *)
(***************************************************************************)
C1_RelayOrder ==
    /\ Len(AttemptedRelays) <= Len(corsProxies)
    /\ AttemptedRelays = SubSeq(corsProxies, 1, Len(AttemptedRelays))
    /\ Cardinality(RelayRequests) <= 1
    /\ \A p \in 1..Len(RelayLog) :
          /\ IsAttempt(RelayLog[p]) /\ p > 1 => IsFailure(RelayLog[p - 1])
          /\ ~IsAttempt(RelayLog[p]) =>
                p > 1 /\ IsAttempt(RelayLog[p - 1]) /\ RelayLog[p - 1].n = RelayLog[p].n
          /\ RelayLog[p].ev = "proxy succeeded" =>
                /\ p = Len(RelayLog)
                /\ Len(AttemptedRelays) = FailedCount + 1
                /\ RelayLog[p].n = corsProxies[FailedCount + 1]
                /\ calls[Cur].quote = RelayLog[p].q

\* The second relay succeeded after the first failed, and getQuote has returned.
C1_Witness ==
    /\ Len(log) > 0 /\ calls[Cur].pc = "returned"
    /\ FailedCount = 1
    /\ \E p \in 1..Len(log) : log[p].ev = "proxy succeeded" /\ log[p].n = corsProxies[2]

(***************************************************************************)
(* C2.  Relay exhaustion.  When fetchQuoteFromApi throws, every configured *)
(* relay has been attempted exactly once, in order, each attempt failed,   *)
(* and there were exactly N attempts; with N = 0 it throws with none.      *)
(***************************************************************************)
C2_Exhaustion ==
    HasEvent("fetchQuoteFromApi throws") =>
        /\ AttemptedRelays = corsProxies
        /\ FailedCount = Len(corsProxies)
        /\ ~HasEvent("proxy succeeded")

\* Both relays of a two-relay list failed and fetchQuoteFromApi threw.
C2_Witness ==
    /\ HasEvent("fetchQuoteFromApi throws")
    /\ Len(corsProxies) = 2
    /\ FailedCount = 2

(***************************************************************************)
(* Reading the fallback part of the history.                               *)
(***************************************************************************)
FetchFailed == Len(log) > 0 /\ HasEvent("fetchQuoteFromApi throws")

\* The persisted cache holds at least one entry.
CacheNonEmpty == localStorage.kind = "array" /\ Len(localStorage.items) > 0

\* The request for quotes.json has been issued and has settled.
DatasetSettled ==
    /\ HasEvent("fetchFallbackQuotes")
    /\ calls[Cur].pc \notin {"dataset_fetch", "dataset_body"}

\* What is on display is the quote the activation acquired: its author, and its
\* text, which went through translateText exactly when Turkish was selected.
DisplaysAcquiredQuote ==
    /\ screen = "quote"
    /\ HasEvent("displayQuote") /\ ~HasEvent("displayError")
    /\ state.currentAuthor = calls[Cur].quote.author
    /\ ~HasEvent("translateText") => state.currentQuote = calls[Cur].quote.text
    /\ \A p \in 1..Len(log) :
          log[p].ev = "translateText" => log[p].q.text = calls[Cur].quote.text

(***************************************************************************)
(* C3.  Cache before dataset.  When the relay fetch failed and the         *)
(* persisted cache has entries, the quote acquired is one of those         *)
(* entries, quotes.json is never requested during the acquisition, and     *)
(* when getQuote returns that quote is on display.                         *)
(***************************************************************************)
C3_CacheBeforeDataset ==
    FetchFailed /\ CacheNonEmpty =>
        /\ ~HasEvent("fetchFallbackQuotes")
        /\ calls[Cur].pc \notin {"dataset_fetch", "dataset_body", "rejected"}
        /\ \E i \in 1..Len(localStorage.items) : calls[Cur].quote = localStorage.items[i]
        /\ calls[Cur].pc = "returned" => DisplaysAcquiredQuote

\* A degraded acquisition that served the second entry of the cache.
C3_Witness ==
    /\ FetchFailed /\ CacheNonEmpty
    /\ calls[Cur].pc = "returned"
    /\ Len(localStorage.items) = 2
    /\ calls[Cur].quote = localStorage.items[2]
    /\ state.currentQuote = localStorage.items[2].text

(***************************************************************************)
(* C4.  Dataset fallback.  When the relay fetch failed, the cache gave no  *)
(* quote and quotes.json loaded as an array with at least one record, the  *)
(* quote acquired has the q and the a of one record of the loaded array as *)
(* its text and author, and when getQuote returns that quote is on display.*)
(***************************************************************************)
C4_DatasetQuote ==
    LET fallbackQuotes == calls[Cur].fallbackQuotes IN
    FetchFailed /\ DatasetSettled /\ fallbackQuotes.kind = "array"
                /\ Len(fallbackQuotes.items) > 0 =>
        /\ \E i \in 1..Len(fallbackQuotes.items) :
              calls[Cur].quote = Quote(fallbackQuotes.items[i].q, fallbackQuotes.items[i].a)
        /\ calls[Cur].pc # "rejected"
        /\ calls[Cur].pc = "returned" => DisplaysAcquiredQuote

\* The second record of a two-record dataset is on display, untranslated.
C4_Witness ==
    /\ FetchFailed /\ DatasetSettled
    /\ calls[Cur].pc = "returned"
    /\ Len(calls[Cur].fallbackQuotes.items) = 2
    /\ state.currentQuote = calls[Cur].fallbackQuotes.items[2].q
    /\ state.currentAuthor = calls[Cur].fallbackQuotes.items[2].a

(***************************************************************************)
(* C5.  Total failure.  When the relay fetch failed, the cache gave no     *)
(* quote and the load of quotes.json failed or yielded no records (what    *)
(* fetchFallbackQuotes returned is not an array with a record in it),      *)
(* getQuote has returned without throwing, displayError was called and     *)
(* displayQuote was not.                                                   *)
(***************************************************************************)
C5_TotalFailure ==
    LET fallbackQuotes == calls[Cur].fallbackQuotes IN
    FetchFailed /\ DatasetSettled
                /\ ~(fallbackQuotes.kind = "array" /\ Len(fallbackQuotes.items) > 0) =>
        /\ calls[Cur].pc = "returned"
        /\ ~HasEvent("throw")
        /\ HasEvent("displayError") /\ ~HasEvent("displayQuote")
        /\ screen = "error"

(***************************************************************************)
(* C6.  The failure outcome is reached only when all three sources gave    *)
(* nothing: displayError implies that every relay failed, the cache sample *)
(* was empty and the dataset sample was empty; and an acquisition in which *)
(* a source yielded a quote ends with displayQuote and without             *)
(* displayError.                                                           *)
(***************************************************************************)
C6_ErrorOnlyWhenAllFail ==
    Len(log) > 0 =>
        /\ HasEvent("displayError") =>
              /\ HasEvent("fetchQuoteFromApi throws") /\ ~HasEvent("proxy succeeded")
              /\ FailedCount = Len(corsProxies)
              /\ \E p \in 1..Len(log) : log[p] = Event("getRandomCachedQuote", 0, NoQuote)
              /\ \E p \in 1..Len(log) : log[p] = Event("getRandomFallbackQuote", 0, NoQuote)
              /\ ~Truthy(calls[Cur].quote)
        /\ calls[Cur].pc = "returned" /\ Truthy(calls[Cur].quote) =>
              /\ HasEvent("displayQuote") /\ ~HasEvent("displayError")
              /\ screen = "quote"

\* A failed acquisition that follows a successful one: the error is on screen.
C6_Witness ==
    /\ Len(log) > 0 /\ calls[Cur].pc = "returned"
    /\ HasEvent("displayError")
    /\ state.currentQuote # Null

(***************************************************************************)
(* Reading the activations.                                                *)
(***************************************************************************)
\* The activations past the isLoading guard that have not finished.
Running == {a \in Acts : ~Free(calls[a])}

\* A step in which an activation passes the guard.
ActivationStarts == \E a \in Acts : Free(calls[a]) /\ ~Free(calls'[a])

\* A step that is a bare getQuote trigger (button or keyboard).
GetQuoteTrigger == ClickNewQuote \/ KeyNewQuote

(***************************************************************************)
(* C7.  A getQuote trigger that arrives while state.isLoading is dropped:  *)
(* the step changes no program state (no request is issued, no activation  *)
(* starts, nothing is displayed or stored) and only counts as dropped; and *)
(* an activation starts only in a trigger step taken while isLoading is    *)
(* false, so a dropped trigger is not run later.                           *)
(***************************************************************************)
C7_DroppedTrigger ==
    [][ /\ state.isLoading /\ GetQuoteTrigger =>
            /\ UNCHANGED <<state, localStorage, screen, corsProxies, calls, timers, booted, log>>
            /\ dropped' = dropped + 1
        /\ dropped' > dropped =>
            /\ state.isLoading
            /\ UNCHANGED <<localStorage, screen, calls, timers, log>>
            /\ state'.isLoading /\ state'.currentQuote = state.currentQuote
            /\ state'.currentAuthor = state.currentAuthor
        /\ ActivationStarts =>
            /\ ~state.isLoading
            /\ AppInit \/ GetQuoteTrigger \/ \E lang \in {"en", "tr"} : ClickLanguage(lang)
      ]_vars

\* A trigger was dropped while the relay request of the acquisition is outstanding.
C7_Witness ==
    /\ dropped = 1
    /\ Len(log) > 0 /\ calls[Cur].pc = "relay_fetch"

(***************************************************************************)
(* C8.  At most one acquisition at a time.  In every reachable state at    *)
(* most one getQuote activation is past the guard and unfinished, it holds *)
(* the loading flag, and at most one relay timer is pending; so at most    *)
(* one relay, dataset or translation request is outstanding.               *)
(***************************************************************************)
C8_SingleAcquisition ==
    /\ Cardinality(Running) <= 1
    /\ Cardinality(timers) <= 1
    /\ Running # {} => state.isLoading

\* A translation request is outstanding after a trigger was dropped.
C8_Witness ==
    /\ Cardinality(Running) = 1
    /\ dropped = 1
    /\ \E a \in Running : calls[a].pc = "translate_fetch"

(***************************************************************************)
(* C9.  The guard is always released.  Whenever no getQuote activation is  *)
(* running (each has returned or thrown), state.isLoading is false.        *)
(* The code releases the flag in the last statements of getQuote only, so  *)
(* an exception from getRandomFallbackQuote leaves it set.                 *)
(***************************************************************************)
C9_GuardAlwaysReleased == Running = {} => ~state.isLoading

(***************************************************************************)
(* C10.  The persisted cache never holds more than CONFIG.maxCacheSize     *)
(* entries, whatever the saves and their persistence outcomes.             *)
(***************************************************************************)
C10_CacheBounded ==
    /\ localStorage.kind \in {"absent", "array"}
    /\ Len(localStorage.items) <= maxCacheSize

\* The cache is full and the quote just saved is its newest entry.
C10_Witness ==
    /\ localStorage.kind = "array"
    /\ Len(localStorage.items) = maxCacheSize
    /\ Len(log) > 0
    /\ \E p \in 1..Len(log) :
          /\ log[p].ev = "saveQuoteToCache"
          /\ log[p].q = localStorage.items[maxCacheSize]

(***************************************************************************)
(* C11.  No two entries of the persisted cache have the same text, also    *)
(* when the same text was fetched with different authors.                  *)
(***************************************************************************)
C11_NoDuplicateText ==
    \A i, j \in 1..Len(localStorage.items) :
        localStorage.items[i].text = localStorage.items[j].text => i = j

\* A text already cached under one author was fetched under another author and
\* passed to saveQuoteToCache; the cache still holds the first entry alone.
C11_Witness ==
    /\ Len(log) > 0
    /\ \E p \in 1..Len(log), i \in 1..Len(localStorage.items) :
          /\ log[p].ev = "saveQuoteToCache"
          /\ log[p].q.text = localStorage.items[i].text
          /\ log[p].q.author # localStorage.items[i].author

(***************************************************************************)
(* Recording specification: saveQuoteToCache alone, called with any quotes *)
(* and any persistence outcomes, from a clean cache.  The log holds the    *)
(* calls: the quote passed and whether setItem would succeed (n = 1).      *)
(***************************************************************************)
RecordQuotes ==
    {Quote("Be yourself.", a) : a \in {"Oscar Wilde", "Unknown"}}
        \cup {Quote(t, "Unknown") : t \in {"Stay hungry.", "Know thyself.", "Carpe diem.", Undefined}}

Record(quote, setItemOk) ==
    /\ Len(log) < MaxRecords
    /\ localStorage' = saveQuoteToCache(localStorage, quote, setItemOk)
    /\ log' = Append(log, Event("saveQuoteToCache", IF setItemOk THEN 1 ELSE 0, quote))
    /\ UNCHANGED <<state, screen, corsProxies, calls, timers, booted, dropped, received, favs>>

InitRecord == InitWith(CleanStores, {JsValue("absent", <<>>)}) /\ corsProxies = <<>>

NextRecord == \E quote \in RecordQuotes, setItemOk \in BOOLEAN : Record(quote, setItemOk)

SpecRecord == InitRecord /\ [][NextRecord]_vars

\* The quotes passed to saveQuoteToCache so far, in call order.
Recorded == [p \in 1..Len(log) |-> log[p].q]

\* Every call so far could persist and no two calls had the same text.
AllDistinctAndPersisted ==
    /\ \A p \in 1..Len(log) : log[p].n = 1
    /\ \A p, r \in 1..Len(log) : log[p].q.text = log[r].q.text => p = r

LastN(seq, n) == SubSeq(seq, Len(seq) - n + 1, Len(seq))

(***************************************************************************)
(* C12.  saveQuoteToCache is idempotent.  A call with a quote whose text   *)
(* is already in the persisted cache, under the same or another author,    *)
(* leaves the persisted value exactly as it was; so does a call that       *)
(* repeats the text of the call before it, when that call could persist.   *)
(***************************************************************************)
C12_Idempotent ==
    [][ Len(log') = Len(log) + 1 =>
          LET quote == log'[Len(log')].q IN
          \/ \E i \in 1..Len(localStorage.items) : localStorage.items[i].text = quote.text
          \/ Len(log) > 0 /\ log[Len(log)].n = 1 /\ log[Len(log)].q.text = quote.text
          => localStorage' = localStorage
      ]_vars

\* The same text was recorded twice, the second time under another author:
\* the cache holds the first entry only.
C12_Witness ==
    /\ Len(log) = 2
    /\ log[1] = Event("saveQuoteToCache", 1, Quote("Be yourself.", "Oscar Wilde"))
    /\ log[2] = Event("saveQuoteToCache", 1, Quote("Be yourself.", "Unknown"))
    /\ localStorage = Stringify(<<Quote("Be yourself.", "Oscar Wilde")>>)

(***************************************************************************)
(* C13.  Eviction.  After N_max + k quotes with distinct texts have been   *)
(* recorded into a clean cache (k >= 0), the cache holds exactly the N_max *)
(* most recently recorded ones, oldest first; before the cap is reached it *)
(* holds all of them in recording order.                                   *)
(***************************************************************************)
C13_Eviction ==
    AllDistinctAndPersisted /\ Len(log) > 0 =>
        IF Len(log) >= maxCacheSize
        THEN localStorage = Stringify(LastN(Recorded, maxCacheSize))
        ELSE localStorage = Stringify(Recorded)

\* Two quotes more than the cap have been recorded.
C13_Witness ==
    /\ AllDistinctAndPersisted
    /\ Len(log) = maxCacheSize + 2
    /\ Len(localStorage.items) = maxCacheSize

(***************************************************************************)
(* C14.  A failed persist during a Fresh acquisition.  In the step where   *)
(* localStorage.setItem throws the persisted cache stays as it was; the    *)
(* exception does not leave saveQuoteToCache, so getQuote neither rejects  *)
(* nor enters the fallback chain, the quote it holds is the one the relay  *)
(* returned, and when getQuote returns that quote is on display.           *)
(***************************************************************************)
C14_PersistFailureAbsorbed ==
    /\ [](HasEvent("setItem throws") =>
            /\ calls[Cur].pc # "rejected" /\ ~HasEvent("throw")
            /\ ~HasEvent("fetchQuoteFromApi throws")
            /\ ~HasEvent("getRandomCachedQuote") /\ ~HasEvent("fetchFallbackQuotes")
            /\ ~calls[Cur].isFromFallback
            /\ \E p \in 1..Len(log) :
                  log[p].ev = "proxy succeeded" /\ log[p].q = calls[Cur].quote
            /\ calls[Cur].pc = "returned" => DisplaysAcquiredQuote)
    /\ [][ (/\ ~HasEvent("setItem throws")
            /\ \E p \in 1..Len(log') : log'[p].ev = "setItem throws")
           => localStorage' = localStorage ]_vars

\* setItem threw while the cache held an entry from an earlier acquisition:
\* the entry is still there and the quote on display is not in the cache.
C14_Witness ==
    /\ Len(log) > 0 /\ HasEvent("setItem throws")
    /\ calls[Cur].pc = "returned" /\ screen = "quote"
    /\ CacheNonEmpty
    /\ \A i \in 1..Len(localStorage.items) : localStorage.items[i].text # state.currentQuote
    /\ state.currentQuote = calls[Cur].quote.text

(***************************************************************************)
(* Foreign-cache specification: the program starts with a value under the  *)
(* cache key that it did not write (an empty string, unparsable text,      *)
(* JSON null, a number, a string, an object), and with such a value, no    *)
(* value or an empty list under the favorites key.                         *)
(***************************************************************************)
InitForeign == InitWith(ForeignStores, ForeignStores \cup CleanStores)

SpecForeign == InitForeign /\ [][Next]_vars

(***************************************************************************)
(* C15.  A persisted value that is not an array of quotes is read as an    *)
(* empty cache: whenever getRandomCachedQuote has run on such a value it   *)
(* returned the empty result without throwing and the acquisition went on  *)
(* to request quotes.json.                                                 *)
(***************************************************************************)
C15_ForeignCacheIsEmpty ==
    Len(log) > 0 /\ HasEvent("getRandomCachedQuote") /\ localStorage.kind # "array" =>
        /\ \A p \in 1..Len(log) : log[p].ev = "getRandomCachedQuote" => log[p].q = NoQuote
        /\ \A p \in 1..Len(log) :
              log[p].ev = "getRandomCachedQuote" =>
                  p < Len(log) /\ log[p + 1].ev = "fetchFallbackQuotes"

(***************************************************************************)
(* Reading the translation part of the history.  The response of the       *)
(* translation service is logged as "translate network error", "translate  *)
(* http error" or "translate body <kind>" (n is the payload's status       *)
(* field), the value translateText resolved to as "translateText returns". *)
(***************************************************************************)
\* The translation call failed in one of the four ways: network error, non-ok
\* HTTP status, unparsable body, payload whose status field is not 200.
TranslationFailed ==
    \E p \in 1..Len(log) :
        \/ log[p].ev \in {"translate network error", "translate http error",
                          "translate body notjson"}
        \/ log[p].ev = "translate body object" /\ log[p].n # 200

(***************************************************************************)
(* C16.  Translation failure.  When the translation call failed the        *)
(* acquisition ends with displayQuote, not displayError, and the text on   *)
(* display is exactly the acquired quote's text, under its author.         *)
(***************************************************************************)
C16_TranslationFailureKeepsText ==
    Len(log) > 0 /\ TranslationFailed =>
        /\ calls[Cur].pc = "returned"
        /\ screen = "quote"
        /\ HasEvent("displayQuote") /\ ~HasEvent("displayError")
        /\ state.currentQuote = calls[Cur].quote.text
        /\ state.currentAuthor = calls[Cur].quote.author

\* The service answered with a payload of status 403 and the English text of a
\* quote is on display while Turkish is selected.
C16_Witness ==
    /\ Len(log) > 0
    /\ \E p \in 1..Len(log) : log[p].ev = "translate body object" /\ log[p].n = 403
    /\ state.currentLanguage = "tr"
    /\ screen = "quote" /\ state.currentQuote = "Be yourself."

(***************************************************************************)
(* C17.  translateText is total.  Called with a string, for every response *)
(* of the translation service it resolves to the translated text or to the *)
(* text it was given, never to anything else.                              *)
(***************************************************************************)
C17_TranslateReturnsString ==
    \A p \in 1..Len(log) :
        log[p].ev = "translateText returns" /\ calls[Cur].quote.text # Undefined =>
            log[p].q.text \in {calls[Cur].quote.text, Translated(calls[Cur].quote.text)}

(***************************************************************************)
(* Reading the order of the history.                                       *)
(***************************************************************************)
Positions(ev) == {p \in 1..Len(log) : log[p].ev = ev}

\* A source produced the quote the activation holds: a relay, the cache or
\* quotes.json.
IsSourceEvent(e) ==
    /\ e.ev \in {"proxy succeeded", "getRandomCachedQuote", "getRandomFallbackQuote"}
    /\ Truthy(e.q)

\* The step appended to the history and ev is the last event it appended.
Appends(ev) == log' # log /\ Len(log') > 0 /\ log'[Len(log')].ev = ev

(***************************************************************************)
(* C18.  Translation is called at most once in an acquisition, only with a *)
(* quote acquired and Turkish selected, and with the quote's text; never   *)
(* when the acquisition failed or English is selected; displayQuote gets   *)
(* the acquired quote's author unchanged.                                  *)
(***************************************************************************)
C18_TranslationOnce ==
    /\ [](/\ Cardinality(Positions("translateText")) <= 1
          /\ \A p \in Positions("translateText") :
                Truthy(calls[Cur].quote) /\ log[p].q.text = calls[Cur].quote.text
          /\ \A p \in Positions("displayQuote") : log[p].q.author = calls[Cur].quote.author
          /\ HasEvent("displayError") => ~HasEvent("translateText"))
    /\ [][Appends("translateText") => state'.currentLanguage = "tr"]_vars

\* A translated quote is on display under the author the source gave.
C18_Witness ==
    /\ Len(log) > 0 /\ calls[Cur].pc = "returned"
    /\ Cardinality(Positions("translateText")) = 1
    /\ state.currentLanguage = "tr"
    /\ state.currentQuote = Translated(calls[Cur].quote.text)
    /\ state.currentAuthor = "Oscar Wilde" /\ calls[Cur].quote.author = "Oscar Wilde"

(***************************************************************************)
(* C19.  Translation is the last acquisition step and no source bypasses   *)
(* it.  A translation call comes after the event by which a source (relay, *)
(* cache or quotes.json) produced the quote and after the cache write, no  *)
(* acquisition event follows it, and displayQuote comes after it; a quote  *)
(* is displayed without a translation call only when English is selected.  *)
(***************************************************************************)
C19_TranslationLast ==
    /\ [](\A p \in Positions("translateText") :
            /\ \E s \in 1..(p - 1) : IsSourceEvent(log[s]) /\ log[s].q = calls[Cur].quote
            /\ \A r \in 1..Len(log) :
                  /\ log[r].ev \in {"tryFetchWithProxy", "proxy failed", "proxy succeeded",
                                    "fetchQuoteFromApi throws", "getRandomCachedQuote",
                                    "fetchFallbackQuotes", "getRandomFallbackQuote",
                                    "saveQuoteToCache", "setItem throws"} => r < p
                  /\ log[r].ev = "displayQuote" => r > p)
    /\ [][(Appends("displayQuote") /\ \A p \in 1..Len(log') : log'[p].ev # "translateText")
            => state'.currentLanguage = "en"]_vars

\* A quote from quotes.json was translated and then displayed.
C19_Witness ==
    /\ Len(log) > 0 /\ calls[Cur].pc = "returned"
    /\ \E s, p, d \in 1..Len(log) :
          /\ s < p /\ p < d
          /\ log[s].ev = "getRandomFallbackQuote" /\ Truthy(log[s].q)
          /\ log[p].ev = "translateText"
          /\ log[d].ev = "displayQuote" /\ log[d].q.text = Translated(log[s].q.text)

(***************************************************************************)
(* C20.  Save on relay success.  Whenever a relay returned a quote, the    *)
(* next thing getQuote did was saveQuoteToCache with that quote, whose     *)
(* author is already normalized, before any translation or display; unless *)
(* setItem threw, the cache then holds an entry with the quote's text.     *)
(***************************************************************************)
C20_SaveBeforeDisplay ==
    \A p \in Positions("proxy succeeded") :
        /\ p < Len(log)
        /\ log[p + 1].ev = "saveQuoteToCache" /\ log[p + 1].q = log[p].q
        /\ log[p].q.author \notin PlaceholderAuthors \cup {"", Undefined}
        /\ \A r \in Positions("translateText") \cup Positions("displayQuote") : r > p + 1
        /\ ~HasEvent("setItem throws") =>
              \E i \in 1..Len(localStorage.items) : localStorage.items[i].text = log[p].q.text

\* Relays [1, 2]: the first failed, the second returned the record
\* {q: "Know thyself.", a: "zenquotes.io"}; the quote is on display under
\* "Unknown" and the cache holds it.
C20_Witness ==
    /\ Len(log) > 0 /\ calls[Cur].pc = "returned"
    /\ corsProxies = <<1, 2>>
    /\ \E f, p \in 1..Len(log) :
          /\ f < p
          /\ log[f].ev = "proxy failed" /\ log[f].n = 1
          /\ log[p].ev = "proxy succeeded" /\ log[p].n = 2
          /\ log[p].q = Quote("Know thyself.", "Unknown")
    /\ state.currentQuote = "Know thyself." /\ state.currentAuthor = "Unknown"
    /\ \E i \in 1..Len(localStorage.items) :
          localStorage.items[i] = Quote("Know thyself.", "Unknown")

(***************************************************************************)
(* Reading the relay response read in the last step.                       *)
(***************************************************************************)
\* The step read a relay body that is an array with a first record.
ReceivedRecord == received.kind = "array" /\ Len(received.doc) > 0

\* The step read a relay body and tryFetchWithProxy returned a quote from it.
ReceivedAndSucceeded == Len(log) > 0 /\ ReceivedRecord /\ HasEvent("proxy succeeded")

(***************************************************************************)
(* C21.  Author normalization.  The author of the quote a relay attempt    *)
(* returns is "Unknown" when the record's author is absent, empty or       *)
(* exactly "zenquotes.io" or "type.fit", and is the record's author        *)
(* unchanged otherwise; normalizing the returned author again gives the    *)
(* same author.                                                            *)
(***************************************************************************)
C21_AuthorNormalized ==
    ReceivedAndSucceeded =>
        LET a == received.doc[1].a
            author == calls[Cur].quote.author
        IN /\ a \in {Undefined, "", "zenquotes.io", "type.fit"} => author = "Unknown"
           /\ a \notin {Undefined, "", "zenquotes.io", "type.fit"} => author = a
           /\ CleanAuthor(author) = author

\* A record whose author differs from a placeholder only by letter case was
\* returned with its author unchanged.
C21_Witness ==
    /\ ReceivedAndSucceeded
    /\ received.doc[1].a = "ZenQuotes.io"
    /\ calls[Cur].quote.author = "ZenQuotes.io"

(***************************************************************************)
(* C22.  Every quote handed to displayQuote is complete: its text and its  *)
(* author are non-empty strings, whichever source produced it.             *)
(***************************************************************************)
C22_DisplayedQuoteComplete ==
    Len(log) > 0 /\ HasEvent("displayQuote") =>
        /\ calls[Cur].quote.text \notin {Undefined, Null, ""}
        /\ calls[Cur].quote.author \notin {Undefined, Null, ""}
        /\ \A p \in Positions("displayQuote") : log[p].q.author \notin {Undefined, Null, ""}

\* After the body read in the last step the attempt failed and the fetcher
\* advanced: the next relay is being tried or, with none left, it threw.
AttemptFailedAndAdvanced ==
    /\ ~HasEvent("proxy succeeded") /\ ~HasEvent("saveQuoteToCache")
    /\ FailedCount >= 1
    /\ \/ HasEvent("fetchQuoteFromApi throws") /\ FailedCount = Len(corsProxies)
       \/ /\ Len(AttemptedRelays) = FailedCount + 1
          /\ calls[Cur].pc = "relay_fetch" /\ calls[Cur].proxy = FailedCount + 1

(***************************************************************************)
(* C23.  Unusable relay body.  A relay body that is not JSON, is an empty  *)
(* array, or whose first record has no q field fails the attempt: no quote *)
(* is returned from it, nothing is saved, the fetcher goes to the next     *)
(* relay.                                                                  *)
(***************************************************************************)
C23_UnusableBodyFails ==
    \/ received.kind = "notjson"
    \/ received.kind = "array" /\ Len(received.doc) = 0
    \/ ReceivedRecord /\ received.doc[1].q = Undefined
    => Len(log) > 0 /\ AttemptFailedAndAdvanced

(***************************************************************************)
(* C24.  Rate-limit text.  A relay record whose text contains "too many    *)
(* requests" in any letter case fails the attempt and the fetcher goes to  *)
(* the next relay; no relay attempt ever returns such a text, and none is  *)
(* ever in the cache or displayed.                                         *)
(***************************************************************************)
\* The texts of the model that contain the phrase, in two letter cases.
RateLimited == {RateLimitText, "TOO MANY REQUESTS"}

C24_RateLimitFails ==
    /\ ReceivedRecord /\ received.doc[1].q \in RateLimited
          => Len(log) > 0 /\ AttemptFailedAndAdvanced
    /\ \A p \in Positions("proxy succeeded") : log[p].q.text \notin RateLimited
    /\ \A i \in 1..Len(localStorage.items) : localStorage.items[i].text \notin RateLimited
    /\ state.currentQuote \notin RateLimited

\* The first relay answered with the phrase in capitals; the second relay is
\* being tried.
C24_Witness ==
    /\ ReceivedRecord /\ received.doc[1].q = "TOO MANY REQUESTS"
    /\ FailedCount = 1
    /\ calls[Cur].pc = "relay_fetch" /\ calls[Cur].proxy = 2

(***************************************************************************)
(* C25.  Each relay attempt is bounded by the timeout: while an attempt    *)
(* has not produced a parsed quote, whether it waits for the response or   *)
(* for the body, its timer is pending, so the attempt is aborted when the  *)
(* timeout elapses.                                                        *)
(***************************************************************************)
C25_AttemptBounded ==
    \A a \in Acts :
        calls[a].pc \in {"relay_fetch", "relay_body"} => <<a, calls[a].proxy>> \in timers

(***************************************************************************)
(* C26.  No automatic retry.  Once an acquisition has shown the failure    *)
(* outcome, no request of any kind is outstanding and no timer is pending; *)
(* the history of that acquisition is never continued: the next events     *)
(* belong to a new getQuote call started by a trigger.                     *)
(***************************************************************************)
IsPrefix(s, t) == Len(s) <= Len(t) /\ SubSeq(t, 1, Len(s)) = s

C26_NoAutomaticRetry ==
    /\ [](Len(log) > 0 /\ HasEvent("displayError") =>
            /\ timers = {}
            /\ \A a \in Acts : Free(calls[a])
            /\ calls[Cur].pc = "returned"
            /\ log[Len(log)].ev = "displayError")
    /\ [][(Len(log) > 0 /\ HasEvent("displayError") /\ log' # log) =>
            /\ ~IsPrefix(log, log')
            /\ log'[1].ev = "getQuote"
            /\ ~state.isLoading]_vars

\* An acquisition over one relay ended in total failure and the program is idle.
C26_Witness ==
    /\ Len(log) > 0 /\ HasEvent("displayError")
    /\ Len(corsProxies) = 1 /\ FailedCount = 1
    /\ screen = "error" /\ ~state.isLoading
    /\ timers = {} /\ \A a \in Acts : Free(calls[a])

(***************************************************************************)
(* C27.  Loading the dataset never throws.  Whatever the request for       *)
(* quotes.json gave, fetchFallbackQuotes returned a collection (empty when *)
(* the load failed or the quotes field is not an array of records) and     *)
(* getRandomFallbackQuote returned without throwing, with the empty result *)
(* for an empty collection.                                                *)
(***************************************************************************)
C27_DatasetNeverThrows ==
    Len(log) > 0 /\ HasEvent("getRandomFallbackQuote") =>
        /\ calls[Cur].fallbackQuotes.kind = "array"
        /\ ~HasEvent("throw") /\ calls[Cur].pc # "rejected"
        /\ Len(calls[Cur].fallbackQuotes.items) = 0 =>
              \A p \in Positions("getRandomFallbackQuote") : log[p].q = NoQuote

(***************************************************************************)
(* Favorites specification: after the page load the favorite button and   *)
(* the delete buttons of the favorites panel are clicked while quotes come *)
(* on display.  ShowQuote stands for an acquisition that ends in           *)
(* displayQuote.  The timestamp of a new entry is what the clock reads at  *)
(* the click: any stamp, equal to, earlier or later than those in the      *)
(* list.                                                                   *)
(***************************************************************************)
\* state.favorites.findIndex(q => q.text === text), counted from 1; 0 stands for -1.
findIndex(list, text) ==
    IF \E i \in 1..Len(list) : list[i].text = text
    THEN CHOOSE i \in 1..Len(list) :
            /\ list[i].text = text
            /\ \A j \in 1..(i - 1) : list[j].text # text
    ELSE 0

\* list.splice(index, 1)
Splice(list, index) == SubSeq(list, 1, index - 1) \o SubSeq(list, index + 1, Len(list))

\* Mutation of toggleFavorite: push in place of unshift.
toggleFavorite_push(list, text, author, addedAt) ==
    LET index == findIndex(list, text) IN
    IF index = 0 THEN Append(list, Favorite(text, author, addedAt))
    ELSE Splice(list, index)

\* toggleFavorite past its guard: the list afterwards.
toggleFavorite(list, text, author, addedAt) ==
    LET index == findIndex(list, text) IN
    IF index = 0 THEN <<Favorite(text, author, addedAt)>> \o list
    ELSE Splice(list, index)

\* The quotes that come on display: one text under two authors, two more texts.
ShownQuotes ==
    {Quote("Be yourself.", a) : a \in {"Oscar Wilde", "Unknown"}}
        \cup {Quote("Stay hungry.", "Unknown"), Quote("Carpe diem.", "Horace")}

\* removeFavorite(index) past its splice, index counted from 0: the list
\* afterwards.  An index past the end removes nothing.
removeFavorite(list, index) == Splice(list, index + 1)

\* The favorites that earlier sessions left under the key: none, one, and two
\* with the older one behind.
SavedFavorites ==
    CleanFavorites
        \cup {Stringify(<<Favorite("Stay hungry.", "Unknown", 1),
                          Favorite("Be yourself.", "Oscar Wilde", 0)>>)}

\* displayQuote(text, author)
ShowQuote(quote) ==
    /\ booted
    /\ state' = [state EXCEPT !.currentQuote = quote.text, !.currentAuthor = quote.author]
    /\ screen' = "quote"
    /\ UNCHANGED <<localStorage, corsProxies, calls, timers, booted, log, dropped, received, favs>>

\* Click on the favorite button: toggleFavorite, then saveFavorites, whose
\* setItem may throw; the exception is caught there.  addedAt is the time of
\* the click.  Without a current quote
\* the handler returns at once; on favorites that are not an array findIndex
\* throws before anything is written.
ToggleFavorite(addedAt, setItemOk) ==
    /\ booted
    /\ state.currentQuote \notin Falsy
    /\ favorites.kind = "array"
    /\ Len(toggles) < MaxToggles
    /\ favorites' = JsArray(toggleFavorite(favorites.items, state.currentQuote,
                                           state.currentAuthor, addedAt))
    /\ favoriteQuotes' = IF setItemOk THEN Stringify(favorites'.items) ELSE favoriteQuotes
    /\ toggles' = Append(toggles, [op |-> "toggleFavorite", favorites |-> favorites.items,
                                   after |-> favorites'.items, text |-> state.currentQuote,
                                   saved |-> setItemOk, persisted |-> favoriteQuotes'])
    /\ UNCHANGED <<state, localStorage, screen, corsProxies, calls, timers, booted, log,
                   dropped, received>>

\* Click on the delete button of entry index of the favorites panel:
\* removeFavorite, then saveFavorites as above.  On favorites that are not an
\* array splice throws before anything is written.
RemoveFavorite(index, setItemOk) ==
    /\ booted
    /\ favorites.kind = "array"
    /\ Len(toggles) < MaxToggles
    /\ favorites' = JsArray(removeFavorite(favorites.items, index))
    /\ favoriteQuotes' = IF setItemOk THEN Stringify(favorites'.items) ELSE favoriteQuotes
    /\ toggles' = Append(toggles, [op |-> "removeFavorite", favorites |-> favorites.items,
                                   after |-> favorites'.items, text |-> Null,
                                   saved |-> setItemOk, persisted |-> favoriteQuotes'])
    /\ UNCHANGED <<state, localStorage, screen, corsProxies, calls, timers, booted, log,
                   dropped, received>>

InitFavorites == InitWith({JsValue("absent", <<>>)}, SavedFavorites) /\ corsProxies = <<>>

NextFavorites ==
    \/ AppInit
    \/ \E quote \in ShownQuotes : ShowQuote(quote)
    \/ \E addedAt \in Stamps, setItemOk \in BOOLEAN : ToggleFavorite(addedAt, setItemOk)
    \/ \E index \in 0..Len(favorites.items), setItemOk \in BOOLEAN :
          RemoveFavorite(index, setItemOk)

SpecFavorites == InitFavorites /\ [][NextFavorites]_vars

\* The toggleFavorite calls of the history.
Toggled == {k \in 1..Len(toggles) : toggles[k].op = "toggleFavorite"}

\* The list after call k.
ListAfter(k) == toggles[k].after

\* Calls k and k + 1 are toggles of the same text, with no removal between them.
SameTextTwice(k) ==
    /\ k + 1 <= Len(toggles)
    /\ {k, k + 1} \subseteq Toggled
    /\ toggles[k].text = toggles[k + 1].text

HasText(list, text) == \E i \in 1..Len(list) : list[i].text = text

(***************************************************************************)
(* C28 as stated.  Toggling twice on the same displayed quote restores the *)
(* favorites to their previous entries and order, and after each toggle    *)
(* the persisted favorites equal the list in memory.                       *)
(***************************************************************************)
C28_ToggleTwiceRestores ==
    /\ \A k \in Toggled : SameTextTwice(k) => ListAfter(k + 1) = toggles[k].favorites
    /\ \A k \in Toggled : toggles[k].persisted = Stringify(ListAfter(k))

(***************************************************************************)
(* C28, amended.  toggleFavorite identifies the quote by its text alone:   *)
(* with no favorite of that text a new entry is put at the front, else the *)
(* first entry of that text is removed and the others keep their order.    *)
(* Toggling twice on a text that was not a favorite restores the list;     *)
(* on a text that was a favorite it leaves the other entries in order      *)
(* behind a new entry for the text at the front.  The persisted favorites  *)
(* equal the list in memory after every toggle whose setItem succeeded.    *)
(* The favorites hold no text twice, whatever was loaded, toggled or       *)
(* removed by the delete buttons.                                          *)
(***************************************************************************)
C28_ToggleByText ==
    /\ \A k \in Toggled :
          LET before == toggles[k].favorites
              text == toggles[k].text
              after == ListAfter(k)
          IN /\ ~HasText(before, text) =>
                    /\ Len(after) = Len(before) + 1
                    /\ after[1].text = text /\ Tail(after) = before
             /\ HasText(before, text) =>
                    /\ Len(after) = Len(before) - 1
                    /\ \E i \in 1..Len(before) :
                          before[i].text = text /\ after = Splice(before, i)
             /\ SameTextTwice(k) /\ ~HasText(before, text) => ListAfter(k + 1) = before
             /\ SameTextTwice(k) /\ HasText(before, text) =>
                    /\ ListAfter(k + 1)[1].text = text
                    /\ Tail(ListAfter(k + 1)) = after
    /\ \A k \in Toggled :
          toggles[k].saved => toggles[k].persisted = Stringify(ListAfter(k))
    /\ favorites.kind = "array"
    /\ \A i, j \in 1..Len(favorites.items) :
          favorites.items[i].text = favorites.items[j].text => i = j

\* A favorite loaded from an earlier session that was not at the front was
\* toggled twice: it is at the front now, under the author on display, and the
\* other entry is behind it.
C28_Witness ==
    /\ Len(toggles) >= 2
    /\ SameTextTwice(1)
    /\ Len(toggles[1].favorites) = 2 /\ toggles[1].favorites[2].text = toggles[1].text
    /\ favorites.items = ListAfter(2)
    /\ Len(favorites.items) = 2
    /\ favorites.items[1].text = toggles[1].text
    /\ favorites.items[2] = toggles[1].favorites[1]
    /\ favorites.items[1].author # toggles[1].favorites[2].author

(***************************************************************************)
(* C29.  Timers are released.  Every pending timer belongs to a relay      *)
(* attempt that is still waiting for its response; once an attempt has     *)
(* settled, by a quote or by any failure, its timer is gone, so at most    *)
(* one timer is pending and none can fire into a later attempt.            *)
(***************************************************************************)
C29_TimerCleared ==
    /\ \A t \in timers : calls[t[1]].pc = "relay_fetch" /\ calls[t[1]].proxy = t[2]
    /\ Cardinality(timers) <= 1
    /\ Len(log) > 0 =>
          \A p \in 1..Len(log) :
              log[p].ev \in {"proxy failed", "proxy succeeded"} =>
                  \A t \in timers : corsProxies[t[2]] # log[p].n

\* The first attempt has failed and the only pending timer is the one of the
\* second attempt.
C29_Witness ==
    /\ Len(log) > 0 /\ FailedCount = 1
    /\ calls[Cur].pc = "relay_fetch" /\ calls[Cur].proxy = 2
    /\ timers = {<<Cur, 2>>}

(***************************************************************************)
(* C30.  getRandomCachedQuote returns the empty result exactly when the    *)
(* persisted cache has no entries and otherwise one of the entries now     *)
(* persisted; the step in which it runs leaves the persisted cache as it   *)
(* was.                                                                    *)
(***************************************************************************)
\* The step made the getRandomCachedQuote call of an acquisition.
SamplesCache ==
    /\ log' # log
    /\ \E p \in 1..Len(log') :
          /\ log'[p].ev = "getRandomCachedQuote"
          /\ p > Len(log) \/ ~IsPrefix(log, log')

C30_CacheSample ==
    /\ [](\A p \in Positions("getRandomCachedQuote") :
            /\ log[p].q = NoQuote <=> Len(localStorage.items) = 0
            /\ log[p].q # NoQuote =>
                  \E i \in 1..Len(localStorage.items) : localStorage.items[i] = log[p].q)
    /\ [][SamplesCache => localStorage' = localStorage]_vars

\* The first of two cached entries was sampled and is on display.
C30_Witness ==
    /\ Len(log) > 0 /\ calls[Cur].pc = "returned"
    /\ Len(localStorage.items) = 2
    /\ \E p \in Positions("getRandomCachedQuote") : log[p].q = localStorage.items[1]
    /\ state.currentAuthor = localStorage.items[1].author

(***************************************************************************)
(* C31.  Frame of the persisted cache.  The cache changes only in a step   *)
(* in which a relay attempt returned a quote and getQuote saved it (never  *)
(* in a degraded or failed acquisition, a cache sample, a translation or   *)
(* a relay failure); the new value is the old entries, unmodified and in   *)
(* order, minus entries dropped from the front when the cap is reached,    *)
(* plus the saved quote at the end.                                        *)
(***************************************************************************)
\* The step made the saveQuoteToCache call of an acquisition, with quote q.
SavesInStep(q) ==
    /\ log' # log
    /\ \E p \in 1..Len(log') :
          /\ log'[p].ev = "saveQuoteToCache" /\ log'[p].q = q
          /\ p > 1 /\ log'[p - 1].ev = "proxy succeeded" /\ log'[p - 1].q = q
          /\ p > Len(log) \/ ~IsPrefix(log, log')

C31_CacheFrame ==
    [][localStorage' # localStorage =>
          /\ localStorage'.kind = "array"
          /\ \A p \in 1..Len(log') :
                log'[p].ev \notin {"fetchQuoteFromApi throws", "getRandomCachedQuote",
                                   "fetchFallbackQuotes", "displayError",
                                   "translateText returns"}
          /\ \E k \in 0..Len(localStorage.items) :
                LET q == localStorage'.items[Len(localStorage'.items)] IN
                /\ SavesInStep(q)
                /\ localStorage'.items =
                      SubSeq(localStorage.items, k + 1, Len(localStorage.items)) \o <<q>>
                /\ k > 0 => Len(localStorage'.items) = maxCacheSize
      ]_vars

\* A full cache took a new quote: the entry that was second is first now, the
\* saved quote is last, and it is on display untranslated.
C31_Witness ==
    /\ Len(log) > 0 /\ calls[Cur].pc = "returned"
    /\ ~HasEvent("setItem throws") /\ ~calls[Cur].isFromFallback
    /\ Len(localStorage.items) = maxCacheSize
    /\ localStorage.items[maxCacheSize] = calls[Cur].quote
    /\ localStorage.items[1].text = "Stay hungry."
    /\ localStorage.items[maxCacheSize].text = "Be yourself."
    /\ state.currentQuote = "Be yourself."

(***************************************************************************)
(* C32.  Changing the language fetches a quote for the new language: a     *)
(* step that changes state.currentLanguage starts a new acquisition, and   *)
(* whenever the program is idle with a quote on display, that quote was    *)
(* acquired for the language now selected (it went through translateText   *)
(* exactly when the language is 'tr').                                     *)
(***************************************************************************)
\* The step starts a new acquisition: the history begins anew.
NewAcquisition == log' # log /\ (log = <<>> \/ ~IsPrefix(log, log'))

C32_QuoteForSelectedLanguage ==
    /\ [](Len(log) > 0 /\ Running = {} /\ ~state.isLoading /\ screen = "quote" =>
            (HasEvent("translateText") <=> state.currentLanguage = "tr"))
    /\ [][state'.currentLanguage # state.currentLanguage => NewAcquisition]_vars

(***************************************************************************)
(* C33.  The text displayed matches the language current at that moment:   *)
(* in the step in which displayQuote runs, the acquisition has called      *)
(* translateText if and only if state.currentLanguage is 'tr'.             *)
(***************************************************************************)
C33_DisplayMatchesLanguage ==
    [][Appends("displayQuote") =>
          ((\E p \in 1..Len(log') : log'[p].ev = "translateText")
               <=> state'.currentLanguage = "tr")]_vars

(***************************************************************************)
(* C34.  Total failure keeps the last quote.  state.currentQuote and       *)
(* state.currentAuthor change only in a step in which displayQuote runs;   *)
(* an acquisition that ends with displayError never ran displayQuote, so   *)
(* after it both fields hold what the last displayed quote left there, or  *)
(* null when there was none.                                               *)
(***************************************************************************)
C34_FailureKeepsQuote ==
    /\ [](Len(log) > 0 /\ HasEvent("displayError") => ~HasEvent("displayQuote"))
    /\ [][(\/ state'.currentQuote # state.currentQuote
           \/ state'.currentAuthor # state.currentAuthor
           \/ Appends("displayError"))
          => /\ Appends("displayError") =>
                  /\ state'.currentQuote = state.currentQuote
                  /\ state'.currentAuthor = state.currentAuthor
             /\ ~Appends("displayError") =>
                  /\ Appends("displayQuote")
                  /\ state'.currentQuote = log'[Len(log')].q.text
                  /\ state'.currentAuthor = log'[Len(log')].q.author]_vars

\* The failure message is on screen and the state still holds the quote
\* displayed by an earlier acquisition.
C34_Witness ==
    /\ Len(log) > 0 /\ HasEvent("displayError")
    /\ screen = "error"
    /\ state.currentQuote = "Be yourself." /\ state.currentAuthor = "Oscar Wilde"

(***************************************************************************)
(* C35.  The cache holds source texts only.  Every cached text is a text   *)
(* as a relay sent it, never an output of translateText; the cache is      *)
(* never written once the acquisition has called translateText; and when   *)
(* a cached quote is served with Turkish selected, translateText is called *)
(* with the cached text and its result is what is displayed.               *)
(***************************************************************************)
\* The texts as the remote source sends them.
RelayTexts == {r.q : r \in RelayRecords}

C35_CacheUntranslated ==
    /\ [](/\ \A i \in 1..Len(localStorage.items) :
                /\ localStorage.items[i].text \in RelayTexts
                /\ \A t \in RelayTexts : localStorage.items[i].text # Translated(t)
          /\ \A p \in Positions("saveQuoteToCache"), r \in Positions("translateText") : p < r
          /\ \A s \in Positions("getRandomCachedQuote"), r \in Positions("translateText") :
                log[s].q # NoQuote =>
                    /\ log[r].q.text = log[s].q.text
                    /\ \E i \in 1..Len(localStorage.items) :
                          localStorage.items[i].text = log[r].q.text
                    /\ \A d \in Positions("displayQuote") :
                          \E v \in Positions("translateText returns") :
                              r < v /\ v < d /\ log[d].q.text = log[v].q.text)
    /\ [][localStorage' # localStorage =>
             \A p \in 1..Len(log') : log'[p].ev # "translateText returns"]_vars

\* With Turkish selected a cached quote was served: its translation is on
\* display and the cache still holds the source text.
C35_Witness ==
    /\ Len(log) > 0 /\ calls[Cur].pc = "returned" /\ calls[Cur].isFromFallback
    /\ state.currentLanguage = "tr"
    /\ \E s \in Positions("getRandomCachedQuote") : log[s].q = calls[Cur].quote
    /\ state.currentQuote = Translated("Be yourself.")
    /\ \E i \in 1..Len(localStorage.items) : localStorage.items[i].text = "Be yourself."

(***************************************************************************)
(* Liveness specification.  The browser fires every pending timer, and     *)
(* the requests for quotes.json and for the translation are assumed to     *)
(* settle (response and body).  Nothing is assumed of a relay request: it  *)
(* is the timer that is meant to bound it.                                 *)
(***************************************************************************)
Fairness ==
    /\ \A a \in Acts, i \in 1..MaxRelays : WF_vars(RelayTimeout(a, i))
    /\ \A a \in Acts :
          /\ WF_vars(DatasetResponse(a)) /\ WF_vars(DatasetBody(a))
          /\ WF_vars(TranslateResponse(a)) /\ WF_vars(TranslateBody(a))

SpecLive == Init /\ [][Next]_vars /\ Fairness

(***************************************************************************)
(* C36.  Progress.  When every request for quotes.json and every           *)
(* translation request settles and no step throws, every acquisition       *)
(* finishes: isLoading true leads to isLoading false, or to an exception   *)
(* having left getQuote.                                                   *)
(***************************************************************************)
C36_AcquisitionFinishes ==
    state.isLoading ~> (~state.isLoading \/ (Len(log) > 0 /\ HasEvent("throw")))

====
